---- MODULE Spec2Model ----
(***************************************************************************)
(* A model of the CMS metastore extractor: the incremental, state-driven   *)
(* ETL job of scripts/python_scripts/cms_metastore_extractor.py and the    *)
(* state store of scripts/python_scripts/utils.py.                         *)
(*                                                                         *)
(* Strings the code takes apart (titles, identifiers) are sequences of     *)
(* one-character strings; the literal "distribution_" and "::" of the      *)
(* f-strings are single elements, which no title or identifier of the      *)
(* model contains.  Strings the code only lower-cases, trims or tests the  *)
(* end of (media types, URLs, tags) are drawn from small enumerated sets.  *)
(* Timestamps are readings of a clock that advances with every reading;    *)
(* modified tokens are small numbers, compared for equality only.          *)
(***************************************************************************)
EXTENDS Integers, Sequences, FiniteSets, TLC

VARIABLES
    config,             \* the YAML configuration loaded at import (theme_filter)
    catalog,            \* what the catalog API serves: a sequence of dataset records
    stateFile,          \* content of STATE_FILE (control/dataset_catalog.json)
    tmpFile,            \* the temporary file of this run's save_state call
    landFile,           \* landing/<stem>.csv for every file stem
    outFile,            \* output/<stem>.csv for every file stem
    clock,              \* the next reading of datetime.now(timezone.utc)
    pc,                 \* position of run_job
    hospital_datasets,  \* the filtered datasets of this run
    state,              \* the value load_state returned, mutated by the merge
    updates_count,      \* run_job's local updates_count
    tasks,              \* the futures of this run, one per filtered dataset
    runs,               \* number of runs started so far
    hist                \* observations of the current and previous run (history)

vars == <<config, catalog, stateFile, tmpFile, landFile, outFile, clock, pc,
          hospital_datasets, state, updates_count, tasks, runs, hist>>

(***************************************************************************)
(* Bounds of the model.                                                    *)
(***************************************************************************)
MaxRuns == 2

MaxToken == 2

(***************************************************************************)
(* Program constants.                                                      *)
(***************************************************************************)
MAX_WORKERS == 2

TitleLimit == 50

\* Python's None where the code stores a timestamp or a token.
None == 0

(***************************************************************************)
(* Characters and the enumerated strings.                                  *)
(***************************************************************************)
LowerChars == {"a", "b", "d", "h"}

UpperChars == {"A", "B"}

DigitChars == {"1", "2", "3"}

SpaceChars == {" "}

AlnumChars == LowerChars \cup UpperChars \cup DigitChars

\* str.lower() on one character.
LowerChar(c) ==
    CASE c = "A" -> "a"
      [] c = "B" -> "b"
      [] OTHER -> c

\* str.lower() on the enumerated strings (media types, format hints, URLs).
LowerStr(s) ==
    CASE s = "TEXT/CSV" -> "text/csv"
      [] s = "CSV" -> "csv"
      [] s = "http://x/B.CSV" -> "http://x/b.csv"
      [] OTHER -> s

\* str.endswith(".csv") on the enumerated (lower-cased) URLs.
EndsWithCsv(s) == s \in {"http://x/a.csv", "http://x/b.csv"}

\* t.strip().lower() on the enumerated tags.
StripLower(t) ==
    CASE t = " Hospitals " -> "hospitals"
      [] t = "Quality" -> "quality"
      [] OTHER -> t

\* str(index) of an f-string.
IntStr(i) == <<"1", "2", "3", "4">>[i]

(***************************************************************************)
(* utils.to_snake_case, on sequences of characters.                        *)
(***************************************************************************)
RECURSIVE StripLeft(_, _)
StripLeft(s, drop) ==
    IF s # <<>> /\ Head(s) \in drop THEN StripLeft(Tail(s), drop) ELSE s

RECURSIVE StripRight(_, _)
StripRight(s, drop) ==
    IF s # <<>> /\ s[Len(s)] \in drop
    THEN StripRight(SubSeq(s, 1, Len(s) - 1), drop)
    ELSE s

Strip(s, drop) == StripRight(StripLeft(s, drop), drop)

\* re.sub(r'[^a-zA-Z0-9]', '_', s)
RECURSIVE ReplaceNonAlnum(_)
ReplaceNonAlnum(s) ==
    IF s = <<>> THEN <<>>
    ELSE <<IF Head(s) \in AlnumChars THEN Head(s) ELSE "_">>
         \o ReplaceNonAlnum(Tail(s))

\* re.sub(r'_+', '_', s)
RECURSIVE CollapseUnderscores(_)
CollapseUnderscores(s) ==
    IF Len(s) < 2 THEN s
    ELSE IF s[1] = "_" /\ s[2] = "_" THEN CollapseUnderscores(Tail(s))
    ELSE <<s[1]>> \o CollapseUnderscores(Tail(s))

\* str.lower() on a sequence of characters.
RECURSIVE LowerSeq(_)
LowerSeq(s) ==
    IF s = <<>> THEN <<>> ELSE <<LowerChar(Head(s))>> \o LowerSeq(Tail(s))

to_snake_case(text) ==
    LET str_cleaned == CollapseUnderscores(ReplaceNonAlnum(Strip(text, SpaceChars)))
    IN  LowerSeq(Strip(str_cleaned, {"_"}))

(***************************************************************************)
(* Distribution resolver.                                                  *)
(***************************************************************************)
IsCsv(dist) ==
    LET media_type == LowerStr(dist.mediaType)
        download_url == dist.downloadURL
        format_hint == LowerStr(dist.format)
    IN  \/ media_type = "text/csv"
        \/ format_hint = "csv"
        \/ EndsWithCsv(LowerStr(download_url))

\* The CSV-eligible distributions of a dataset, in list order.
_get_csv_distributions(dataset) ==
    SelectSeq(dataset.distribution.items, IsCsv)

\* A suffix that leaves the ordinal out.
DistSuffixWithoutIndex(index) == <<"distribution_">>

_build_dist_suffix(index) == <<"distribution_", IntStr(index)>>

_build_file_stem(identifier, title, dist_suffix) ==
    LET snake == to_snake_case(title)
        candidate_title ==
            IF Len(snake) > TitleLimit THEN SubSeq(snake, 1, TitleLimit) ELSE snake
    IN  candidate_title \o <<"_">> \o identifier \o <<"_">> \o dist_suffix

StateKey(identifier, index) == identifier \o <<"::">> \o _build_dist_suffix(index)

FileStem(dataset, index) ==
    _build_file_stem(dataset.identifier, dataset.title, _build_dist_suffix(index))

(***************************************************************************)
(* The catalog: dataset records as the API serves them.                    *)
(***************************************************************************)
Dist(mediaType, downloadURL, format) ==
    [mediaType |-> mediaType, downloadURL |-> downloadURL, format |-> format]

Dataset(identifier, title, items, theme) ==
    [identifier |-> identifier, title |-> title, modified |-> 1,
     distribution |-> [type |-> "list", items |-> items],
     theme |-> theme, keyword |-> <<>>]

\* "d1", two CSV distributions (by media type, by format hint) around a JSON one.
DsTwoCsv ==
    Dataset(<<"d", "1">>, <<"A", "b", " ", "1">>,
            <<Dist("text/csv", "http://x/a.csv", ""),
              Dist("application/json", "http://x/c.json", ""),
              Dist("", "http://x/d", "CSV")>>,
            <<"hospitals">>)

\* "d2", one CSV distribution, recognised by its URL.
DsOneCsv ==
    Dataset(<<"d", "2">>, <<"b">>,
            <<Dist("", "http://x/B.CSV", "")>>, <<" Hospitals ">>)

\* A second record with the identifier and title of DsOneCsv.
DsSameId ==
    Dataset(<<"d", "2">>, <<"b">>,
            <<Dist("TEXT/CSV", "http://x/a.csv", "")>>, <<"hospitals">>)

\* "distribution": null, on which the iteration of line 83 raises TypeError.
DsNullDist ==
    [Dataset(<<"d", "3">>, <<"h">>, <<>>, <<"hospitals">>)
        EXCEPT !.distribution = [type |-> "null", items |-> <<>>]]

\* No identifier.
DsNoId ==
    Dataset(<<>>, <<"a">>, <<Dist("text/csv", "http://x/a.csv", "")>>, <<"hospitals">>)

\* No CSV-eligible distribution.
DsNoCsv ==
    Dataset(<<"d", "a">>, <<"a">>,
            <<Dist("application/json", "http://x/c.json", "")>>, <<"hospitals">>)

\* A CSV-eligible distribution without a download URL, then one with.
DsNoUrl ==
    Dataset(<<"d", "b">>, <<"h", "_", "B">>,
            <<Dist("text/csv", "", ""), Dist("text/csv", "http://x/a.csv", "")>>,
            <<"hospitals">>)

\* Tags that do not meet the filter, and no tags at all.
DsOtherTag ==
    Dataset(<<"d", "h">>, <<"a">>,
            <<Dist("text/csv", "http://x/a.csv", "")>>, <<"Quality">>)

DsNoTag ==
    Dataset(<<"d", "h">>, <<"a">>, <<Dist("text/csv", "http://x/a.csv", "")>>, <<>>)

Catalogs ==
    { <<DsTwoCsv>>,
      <<DsOneCsv, DsSameId>>,
      <<DsOneCsv, DsOtherTag, DsNullDist>>,
      <<DsNoId, DsNoCsv, DsNoTag>>,
      <<DsNoUrl>> }

\* config.get('theme_filter') of config/meta_store.yaml.
THEME_FILTER == [type |-> "list", items |-> <<" Hospitals ">>]

Range(s) == {s[i] : i \in DOMAIN s}

\* The filter phase with the configured terms compared as they are written.
FilterDatasetsRaw(metastore, config_filter) ==
    LET item_tags(item) == {StripLower(t) : t \in Range(item.theme \o item.keyword)}
        matches(item) ==
            /\ item_tags(item) # {}
            /\ \E i \in DOMAIN config_filter.items :
                   config_filter.items[i] \in item_tags(item)
    IN  SelectSeq(metastore, matches)

\* The filter phase of run_job.
FilterDatasets(metastore, config_filter) ==
    LET listed == IF config_filter.type = "str"
                  THEN <<config_filter.items[1]>>
                  ELSE config_filter.items
        theme_filters == [i \in DOMAIN listed |-> StripLower(listed[i])]
        item_tags(item) == {StripLower(t) : t \in Range(item.theme \o item.keyword)}
        matches(item) ==
            /\ item_tags(item) # {}
            /\ \E i \in DOMAIN theme_filters : theme_filters[i] \in item_tags(item)
    IN  SelectSeq(metastore, matches)

\* Every (dataset, ordinal) of a catalog that names a CSV distribution.
CsvPairs(cat) ==
    {<<i, n>> \in (DOMAIN cat) \X (1..4) :
        /\ cat[i].distribution.type = "list"
        /\ n <= Len(_get_csv_distributions(cat[i]))}

Stems(cat) == {FileStem(cat[p[1]], p[2]) : p \in CsvPairs(cat)}

Keys(cat) == {StateKey(cat[p[1]].identifier, p[2]) : p \in CsvPairs(cat)}

(***************************************************************************)
(* The state store: JSON values, the state file, load_state.               *)
(*                                                                         *)
(* A parsed top-level value is a list (standing for every value that is no *)
(* dict) or a dict.  A dict is written as the set "has" of wrapper keys it *)
(* holds ("datasets", "last_run"), the value of "last_run", and a mapping  *)
(* "map" from distribution keys to entries: the value of "datasets" when   *)
(* the dict holds that key, and otherwise the dict's own items (the legacy *)
(* flat format).  An entry is a str (a legacy modified token) or a dict,   *)
(* written as the set "has" of its keys and their values.                  *)
(***************************************************************************)
JList == [type |-> "list", has |-> {}, map |-> <<>>, last_run |-> None]

JLegacy(items) == [type |-> "dict", has |-> {}, map |-> items, last_run |-> None]

JWrapped(has, datasets, last_run) ==
    [type |-> "dict", has |-> has, map |-> datasets, last_run |-> last_run]

EntryFields ==
    {"identifier", "distribution_id", "last_modified", "title", "last_processed"}

JEntry(has, id, key, modified, title, processed, seen) ==
    [type |-> "dict", has |-> has, str |-> None, identifier |-> id,
     distribution_id |-> key, last_modified |-> modified,
     title |-> title, last_processed |-> processed, first_seen |-> seen]

JStr(s) == [JEntry({}, <<>>, <<>>, None, <<>>, None, None)
                EXCEPT !.type = "str", !.str = s]

\* File contents: no file, bytes that are no UTF-8 text, text that is no
\* JSON document (an empty or truncated file included), a JSON document.
Absent == [kind |-> "absent", data |-> JList]

Undecodable == [kind |-> "undecodable", data |-> JList]

Malformed == [kind |-> "malformed", data |-> JList]

JsonFile(data) == [kind |-> "json", data |-> data]

\* {"datasets": {}, "last_run": None}
EmptyState == JWrapped({"datasets", "last_run"}, <<>>, None)

\* What json.load(f) does on a file's content.
JsonLoad(file) ==
    CASE file.kind = "json" -> [raised |-> "no", data |-> file.data]
      [] file.kind = "malformed" -> [raised |-> "JSONDecodeError", data |-> JList]
      [] file.kind = "undecodable" -> [raised |-> "UnicodeDecodeError", data |-> JList]

\* The exceptions the except clause of load_state catches.
LoadCaught == {"JSONDecodeError"}

\* The legacy branch taken for every parsed dict, the wrapped ones included:
\* the wrapper's own keys become the entries of "datasets".
LoadStateAlwaysWraps(file) ==
    IF file.kind # "absent"
    THEN LET r == JsonLoad(file)
         IN  IF r.raised \in LoadCaught
             THEN [raised |-> "no", value |-> EmptyState]
             ELSE IF r.raised # "no"
             THEN [raised |-> r.raised, value |-> JList]
             ELSE IF r.data.type = "dict"
             THEN [raised |-> "no",
                   value |-> JWrapped({"datasets", "last_run"},
                                      IF "datasets" \in r.data.has
                                      THEN [k \in {<<"datasets">>} |->
                                               JEntry({}, <<>>, <<>>, None, <<>>, None, None)]
                                      ELSE r.data.map,
                                      None)]
             ELSE [raised |-> "no", value |-> r.data]
    ELSE [raised |-> "no", value |-> EmptyState]

load_state(file) ==
    IF file.kind # "absent"
    THEN LET r == JsonLoad(file)
         IN  IF r.raised \in LoadCaught
             THEN [raised |-> "no", value |-> EmptyState]
             ELSE IF r.raised # "no"
             THEN [raised |-> r.raised, value |-> JList]
             ELSE IF r.data.type = "dict" /\ "datasets" \notin r.data.has
             THEN [raised |-> "no",
                   value |-> JWrapped({"datasets", "last_run"}, r.data.map, None)]
             ELSE [raised |-> "no", value |-> r.data]
    ELSE [raised |-> "no", value |-> EmptyState]

(***************************************************************************)
(* process_dataset: the up-to-date check and the processing record.        *)
(***************************************************************************)
Title(dataset) ==
    IF "title" \in DOMAIN dataset THEN dataset.title ELSE dataset.identifier

\* state.get("datasets", {})
StateDatasets(st) == IF "datasets" \in st.has THEN st.map ELSE <<>>

\* state_datasets.get(state_key) == last_modified: a str equals a stored
\* value only if that value is a str too.
StoredEquals(state_datasets, state_key, last_modified) ==
    /\ state_key \in DOMAIN state_datasets
    /\ state_datasets[state_key].type = "str"
    /\ state_datasets[state_key].str = last_modified

Exists(file) == file # "absent"

\* The condition of lines 130 and 152.
IsCurrent(dataset, index, st, out) ==
    /\ dataset.modified # None
    /\ StoredEquals(StateDatasets(st), StateKey(dataset.identifier, index),
                    dataset.modified)
    /\ Exists(out[FileStem(dataset, index)])

\* The record of lines 163-170: no "first_seen" key yet.
Entry(dataset, index, current_time) ==
    JEntry(EntryFields, dataset.identifier, StateKey(dataset.identifier, index),
           dataset.modified, Title(dataset), current_time, None)

(***************************************************************************)
(* The merge of run_job, lines 239-252.                                    *)
(***************************************************************************)
Put(d, k, v) == [x \in (DOMAIN d) \cup {k} |-> IF x = k THEN v ELSE d[x]]

\* The merge without the lookup of the old entry.
FirstSeenOverwritten(datasets, entry) == entry.last_processed

\* Lines 244-248.
FirstSeen(datasets, entry) ==
    LET state_key == entry.distribution_id
    IN  IF /\ state_key \in DOMAIN datasets
           /\ datasets[state_key].type = "dict"
           /\ "first_seen" \in datasets[state_key].has
        THEN datasets[state_key].first_seen
        ELSE entry.last_processed

MergeEntry(datasets, entry) ==
    Put(datasets, entry.distribution_id,
        [entry EXCEPT !.has = @ \cup {"first_seen"},
                      !.first_seen = FirstSeen(datasets, entry)])

\* A merge loop left after its first entry.
MergeFirstOnly(datasets, result) ==
    IF result = <<>> THEN datasets ELSE MergeEntry(datasets, Head(result))

RECURSIVE MergeResult(_, _)
MergeResult(datasets, result) ==
    IF result = <<>> THEN datasets
    ELSE MergeResult(MergeEntry(datasets, Head(result)), Tail(result))

(***************************************************************************)
(* Initial states.                                                         *)
(***************************************************************************)
\* The record an earlier run stored for a key, with or without "first_seen".
OldEntry(key, has) ==
    JEntry(has, SubSeq(key, 1, Len(key) - 3), key, 1, <<"a">>, 1,
           IF "first_seen" \in has THEN 1 ELSE None)

LegacyFile(cat) == JsonFile(JLegacy([k \in Keys(cat) |-> JStr(1)]))

CurrentFile(cat) ==
    JsonFile(JWrapped({"datasets", "last_run"},
                      [k \in Keys(cat) |-> OldEntry(k, EntryFields \cup {"first_seen"})],
                      1))

\* A wrapped file of records without "first_seen" and without "last_run".
BareFile(cat) ==
    JsonFile(JWrapped({"datasets"}, [k \in Keys(cat) |-> OldEntry(k, EntryFields)],
                      None))

AllOut(cat, c) == [s \in Stems(cat) |-> c]

\* The state file and the output directory a first run of the model finds.
InitialDisks(cat) ==
    { [file |-> Absent, out |-> AllOut(cat, "absent")],
      [file |-> Undecodable, out |-> AllOut(cat, "absent")],
      [file |-> Malformed, out |-> AllOut(cat, "absent")],
      [file |-> JsonFile(JList), out |-> AllOut(cat, "absent")],
      [file |-> LegacyFile(cat), out |-> AllOut(cat, "absent")],
      [file |-> LegacyFile(cat), out |-> AllOut(cat, "ok")],
      [file |-> CurrentFile(cat), out |-> AllOut(cat, "ok")],
      [file |-> BareFile(cat), out |-> AllOut(cat, "ok")] }

NoTmp == [exists |-> FALSE, dir |-> "control", content |-> Absent]

\* What the model records of a run: the calls it made, how discovery and load
\* ended, the state file it found; "full" once it has processed and committed
\* every CSV distribution of its filtered datasets; "prevFull" when the run
\* before was full and the catalog has not changed since.  "lastFailed" is
\* kept from run to run: the file stems whose most recent download or
\* transform call returned failure.
NewHist(file, prevFull) ==
    [downloads |-> 0, transforms |-> 0, saves |-> 0, loads |-> 0,
     discoveryFailed |-> FALSE, loadRaised |-> FALSE,
     fileAtStart |-> file, prevFull |-> prevFull, full |-> FALSE,
     catalogChanged |-> FALSE, lastFailed |-> {}]

Init ==
    /\ config = [theme_filter |-> THEME_FILTER]
    /\ catalog \in Catalogs
    /\ \E disk \in InitialDisks(catalog) :
           /\ stateFile = disk.file
           /\ outFile = disk.out
    /\ tmpFile = NoTmp
    /\ landFile = [s \in Stems(catalog) |-> "absent"]
    /\ clock = 2
    /\ pc = "idle"
    /\ hospital_datasets = <<>>
    /\ state = JList
    /\ updates_count = 0
    /\ tasks = <<>>
    /\ runs = 0
    /\ hist = NewHist(stateFile, FALSE)

(***************************************************************************)
(* download_data and transform_data, on the content of the files.          *)
(* A landing file is "absent", "csv" (a complete body with a header row),  *)
(* "empty" (a complete body of zero rows) or "partial" (a body cut short). *)
(* An output file is "absent", "ok" (the transform of a complete body),    *)
(* "empty" (opened for writing, nothing written) or "partial".             *)
(***************************************************************************)
\* What the request does: a complete body of either kind, a failure before
\* the landing file is opened (status, transport), or one while streaming.
DownloadOutcomes == {"csv", "empty", "fail_clean", "fail_partial"}

download_data(land, outcome) ==
    CASE outcome = "fail_clean" -> [ok |-> FALSE, land |-> land]
      [] outcome = "fail_partial" -> [ok |-> FALSE, land |-> "partial"]
      [] OTHER -> [ok |-> TRUE, land |-> outcome]

\* An I/O error of the transform: none, one before the output file is opened
\* (makedirs, detect_csv_dialect), or one while rows are copied.
TransformErrors == {"none", "before_open", "after_open"}

transform_data(input, output, err) ==
    IF err = "before_open" \/ input = "absent"
    THEN [ok |-> FALSE, out |-> output]
    ELSE IF input = "empty"
    THEN [ok |-> FALSE, out |-> "empty"]
    ELSE IF err = "after_open"
    THEN [ok |-> FALSE, out |-> "partial"]
    ELSE [ok |-> TRUE, out |-> IF input = "csv" THEN "ok" ELSE "partial"]

(***************************************************************************)
(* run_job: discovery, filter, load.                                       *)
(***************************************************************************)
RunEnded == pc \in {"idle", "done", "aborted", "crashed"}

\* An except block that logs and falls through.
FallThroughToLoad == "load"

\* Where run_job is after the except block of the discovery phase (return).
AfterDiscoveryFailure == "aborted"

\* A future: pending, running, resolved ("returned" or "raised"), then
\* "collected" by the as_completed loop.  "log" lists, per iteration of the
\* processing loop, the ordinal and how the iteration ended.
NewTask == [st |-> "pending", idx |-> 1, phase |-> "download",
            processed |-> <<>>, log |-> <<>>, raised |-> FALSE]

StartHist ==
    [NewHist(stateFile, hist.full /\ ~hist.catalogChanged)
        EXCEPT !.lastFailed = hist.lastFailed]

\* Lines 176-186: the catalog request fails.
DiscoverFail ==
    /\ RunEnded
    /\ runs < MaxRuns
    /\ runs' = runs + 1
    /\ pc' = AfterDiscoveryFailure
    /\ hospital_datasets' = <<>>
    /\ tasks' = <<>>
    /\ updates_count' = 0
    /\ state' = JList
    /\ tmpFile' = NoTmp
    /\ hist' = [StartHist EXCEPT !.discoveryFailed = TRUE]
    /\ UNCHANGED <<config, catalog, stateFile, landFile, outFile, clock>>

\* Lines 176-217: the catalog request succeeds, then the filter phase.
DiscoverOk ==
    /\ RunEnded
    /\ runs < MaxRuns
    /\ runs' = runs + 1
    /\ pc' = "load"
    /\ hospital_datasets' = FilterDatasets(catalog, config.theme_filter)
    /\ tasks' = <<>>
    /\ updates_count' = 0
    /\ state' = JList
    /\ tmpFile' = NoTmp
    /\ hist' = StartHist
    /\ UNCHANGED <<config, catalog, stateFile, landFile, outFile, clock>>

\* The bookkeeping at the end of a run: whether it processed and committed
\* every CSV distribution of every filtered dataset.
EndHist(h, full) == [h EXCEPT !.full = full]

\* Lines 220-228: load_state, then one future per filtered dataset.
LoadState ==
    /\ pc = "load"
    /\ LET r == load_state(stateFile)
       IN  IF r.raised # "no"
           THEN /\ pc' = "crashed"
                /\ hist' = EndHist([hist EXCEPT !.loads = @ + 1,
                                                !.loadRaised = TRUE], FALSE)
                /\ UNCHANGED <<state, tasks>>
           ELSE /\ pc' = "dispatch"
                /\ state' = r.value
                /\ tasks' = [i \in DOMAIN hospital_datasets |-> NewTask]
                /\ hist' = [hist EXCEPT !.loads = @ + 1]
    /\ updates_count' = 0
    /\ UNCHANGED <<config, catalog, stateFile, tmpFile, landFile, outFile, clock,
                   hospital_datasets, runs>>

(***************************************************************************)
(* The worker tasks: process_dataset on the pool of MAX_WORKERS threads.   *)
(***************************************************************************)
Running == {i \in DOMAIN tasks : tasks[i].st = "running"}

\* Lines 109-136: what process_dataset does before its processing loop:
\* return None ("none"), raise ("raise") or go on ("process").
Begin(dataset, st, out) ==
    IF dataset.identifier = <<>> THEN "none"
    ELSE IF st.type # "dict" THEN "raise"
    ELSE IF dataset.distribution.type # "list" THEN "raise"
    ELSE LET k == Len(_get_csv_distributions(dataset))
         IN  IF k = 0 THEN "none"
             ELSE IF \A n \in 1..k : IsCurrent(dataset, n, st, out) THEN "none"
             ELSE "process"

\* A pool thread takes the oldest pending task and runs lines 109-138.
TaskStart(i) ==
    /\ pc = "dispatch"
    /\ tasks[i].st = "pending"
    /\ \A j \in 1..(i - 1) : tasks[j].st # "pending"
    /\ Cardinality(Running) < MAX_WORKERS
    /\ LET b == Begin(hospital_datasets[i], state, outFile)
       IN  tasks' = [tasks EXCEPT ![i].st =
                        CASE b = "none" -> "returned"
                          [] b = "raise" -> "raised"
                          [] OTHER -> "running",
                                  ![i].raised = (b = "raise")]
    /\ UNCHANGED <<config, catalog, stateFile, tmpFile, landFile, outFile, clock, pc,
                   hospital_datasets, state, updates_count, runs, hist>>

\* An iteration whose failure ends the loop (a return where line 156 or
\* line 159 has continue).
AdvanceOrGiveUp(t, k, event) ==
    [t EXCEPT !.log = Append(@, <<t.idx, event>>),
              !.idx = @ + 1,
              !.phase = "download",
              !.st = IF t.idx + 1 > k \/ event \in {"dl_fail", "tr_fail"}
                     THEN "returned" ELSE "running"]

\* The end of one iteration of the loop of line 140; after the last one,
\* line 172 resolves the future.
Advance(t, k, event) ==
    [t EXCEPT !.log = Append(@, <<t.idx, event>>),
              !.idx = @ + 1,
              !.phase = "download",
              !.st = IF t.idx + 1 > k THEN "returned" ELSE "running"]

\* Lines 141-156 for the distribution at tasks[i].idx.
TaskDownload(i) ==
    /\ pc = "dispatch"
    /\ tasks[i].st = "running"
    /\ tasks[i].phase = "download"
    /\ LET t == tasks[i]
           dataset == hospital_datasets[i]
           csv_distributions == _get_csv_distributions(dataset)
           k == Len(csv_distributions)
           csv_url == csv_distributions[t.idx].downloadURL
           stem == FileStem(dataset, t.idx)
       IN  IF csv_url = ""
           THEN /\ tasks' = [tasks EXCEPT ![i] = Advance(t, k, "nourl")]
                /\ UNCHANGED <<landFile, hist>>
           ELSE IF IsCurrent(dataset, t.idx, state, outFile)
           THEN /\ tasks' = [tasks EXCEPT ![i] = Advance(t, k, "current")]
                /\ UNCHANGED <<landFile, hist>>
           ELSE \E outcome \in DownloadOutcomes :
                    LET r == download_data(landFile[stem], outcome)
                    IN  /\ landFile' = [landFile EXCEPT ![stem] = r.land]
                        /\ hist' = [hist EXCEPT
                               !.downloads = @ + 1,
                               !.lastFailed = IF r.ok THEN @ ELSE @ \cup {stem}]
                        /\ tasks' = [tasks EXCEPT ![i] =
                               IF r.ok THEN [t EXCEPT !.phase = "transform"]
                               ELSE Advance(t, k, "dl_fail")]
    /\ UNCHANGED <<config, catalog, stateFile, tmpFile, outFile, clock, pc,
                   hospital_datasets, state, updates_count, runs>>

\* A worker that stores its record in the shared state itself.
WorkerWritesState(st, entry) == [st EXCEPT !.map = MergeEntry(@, entry)]

\* Lines 162-170: the state a worker leaves when it has built a record; the
\* record goes to the local list "processed" only.
StateAfterRecord(st, entry) == st

\* Lines 158-170 for the distribution at tasks[i].idx.
TaskTransform(i) ==
    /\ pc = "dispatch"
    /\ tasks[i].st = "running"
    /\ tasks[i].phase = "transform"
    /\ LET t == tasks[i]
           dataset == hospital_datasets[i]
           k == Len(_get_csv_distributions(dataset))
           stem == FileStem(dataset, t.idx)
       IN  \E err \in TransformErrors :
               LET r == transform_data(landFile[stem], outFile[stem], err)
                   done == [t EXCEPT !.processed =
                                Append(@, Entry(dataset, t.idx, clock))]
               IN  /\ outFile' = [outFile EXCEPT ![stem] = r.out]
                   /\ hist' = [hist EXCEPT
                          !.transforms = @ + 1,
                          !.lastFailed = IF r.ok THEN @ \ {stem} ELSE @ \cup {stem}]
                   /\ tasks' = [tasks EXCEPT ![i] =
                          IF r.ok THEN Advance(done, k, "ok")
                          ELSE Advance(t, k, "tr_fail")]
                   /\ clock' = IF r.ok THEN clock + 1 ELSE clock
                   /\ state' = IF r.ok
                                THEN StateAfterRecord(state, Entry(dataset, t.idx, clock))
                                ELSE state
    /\ UNCHANGED <<config, catalog, stateFile, tmpFile, landFile, pc,
                   hospital_datasets, updates_count, runs>>

(***************************************************************************)
(* run_job: the as_completed loop with the merge, and the commit.          *)
(***************************************************************************)
\* A loop that calls future.result() outside a try block.
TaskExceptionEscapes == FALSE

\* Lines 232-237: whether the exception future.result() re-raises is caught.
TaskExceptionCaught == TRUE

\* Lines 231-252 for one resolved future.  An exception that is not caught
\* would leave run_job once the pool has shut down.
Collect(i) ==
    /\ pc = "dispatch"
    /\ tasks[i].st \in {"returned", "raised"}
    /\ LET result == IF tasks[i].st = "raised" THEN <<>> ELSE tasks[i].processed
       IN  /\ state' = IF result = <<>> THEN state
                       ELSE [state EXCEPT !.map = MergeResult(@, result)]
           /\ updates_count' = updates_count + Len(result)
    /\ tasks' = [tasks EXCEPT ![i].st = "collected"]
    /\ IF tasks[i].st = "raised" /\ ~TaskExceptionCaught
       THEN pc' = "crashed" /\ hist' = EndHist(hist, FALSE)
       ELSE pc' = pc /\ hist' = hist
    /\ UNCHANGED <<config, catalog, stateFile, tmpFile, landFile, outFile, clock,
                   hospital_datasets, runs>>

\* A commit that saves whatever the count.
ShouldSaveAlways(count) == TRUE

\* The condition of line 255.
ShouldSave(count) == count > 0

\* Lines 254-259, once the with block of line 223 has been left.
Commit ==
    /\ pc = "dispatch"
    /\ \A i \in DOMAIN tasks : tasks[i].st = "collected"
    /\ IF ShouldSave(updates_count)
       THEN pc' = "save_begin" /\ hist' = hist
       ELSE pc' = "done" /\ hist' = EndHist(hist, FALSE)
    /\ UNCHANGED <<config, catalog, stateFile, tmpFile, landFile, outFile, clock,
                   hospital_datasets, state, updates_count, tasks, runs>>

(***************************************************************************)
(* save_state, step by step, and its interruption.                         *)
(***************************************************************************)
\* os.path.dirname(state_file): STATE_FILE lies in CONTROL_DIR.
StateFileDir == "control"

\* Line 97: the directory mkstemp creates the temporary file in.
TempDir(directory) == directory

\* The temporary file renamed before its buffered content is flushed.
DumpedUnflushed(st) == Malformed

\* Lines 99-100: the temporary file once the with block has closed it.
Dumped(st) == JsonFile(st)

FullyProcessed ==
    \A i \in DOMAIN tasks :
        /\ tasks[i].st = "collected"
        /\ hospital_datasets[i].identifier # <<>>
        /\ hospital_datasets[i].distribution.type = "list"
        /\ Len(tasks[i].processed) = Len(_get_csv_distributions(hospital_datasets[i]))

\* Lines 92-97: stamp last_run, create the (empty) temporary file.
SaveBegin ==
    /\ pc = "save_begin"
    /\ pc' = "save_write"
    /\ state' = [state EXCEPT !.has = @ \cup {"last_run"}, !.last_run = clock]
    /\ clock' = clock + 1
    /\ tmpFile' = [exists |-> TRUE, dir |-> TempDir(StateFileDir), content |-> Malformed]
    /\ hist' = [hist EXCEPT !.saves = @ + 1]
    /\ UNCHANGED <<config, catalog, stateFile, landFile, outFile, hospital_datasets,
                   updates_count, tasks, runs>>

\* Lines 99-100: json.dump completes and the file is closed.
SaveWrite ==
    /\ pc = "save_write"
    /\ pc' = "save_replace"
    /\ tmpFile' = [tmpFile EXCEPT !.content = Dumped(state)]
    /\ UNCHANGED <<config, catalog, stateFile, landFile, outFile, clock, hospital_datasets,
                   state, updates_count, tasks, runs, hist>>

\* Lines 99-104: the write raises (no space, I/O error); the finally block
\* removes the temporary file and the exception leaves run_job.
SaveWriteError ==
    /\ pc = "save_write"
    /\ pc' = "crashed"
    /\ tmpFile' = NoTmp
    /\ hist' = EndHist(hist, FALSE)
    /\ UNCHANGED <<config, catalog, stateFile, landFile, outFile, clock, hospital_datasets,
                   state, updates_count, tasks, runs>>

\* Lines 101-104: os.replace; the finally block finds no temporary file.
SaveReplace ==
    /\ pc = "save_replace"
    /\ pc' = "done"
    /\ stateFile' = tmpFile.content
    /\ tmpFile' = NoTmp
    /\ hist' = EndHist(hist, FullyProcessed)
    /\ UNCHANGED <<config, catalog, landFile, outFile, clock, hospital_datasets,
                   state, updates_count, tasks, runs>>

\* The process is killed inside save_state: nothing more runs, the finally
\* block included, and the files stay as they are.
Crash ==
    /\ pc \in {"save_begin", "save_write", "save_replace"}
    /\ pc' = "crashed"
    /\ hist' = EndHist(hist, FALSE)
    /\ UNCHANGED <<config, catalog, stateFile, tmpFile, landFile, outFile, clock,
                   hospital_datasets, state, updates_count, tasks, runs>>

(***************************************************************************)
(* The environment between two runs: the publisher changes a dataset.      *)
(***************************************************************************)
CatalogChange(i) ==
    /\ RunEnded
    /\ runs \in 1..(MaxRuns - 1)
    /\ catalog[i].modified < MaxToken
    /\ catalog' = [catalog EXCEPT ![i].modified = @ + 1]
    /\ hist' = [hist EXCEPT !.catalogChanged = TRUE]
    /\ UNCHANGED <<config, stateFile, tmpFile, landFile, outFile, clock, pc,
                   hospital_datasets, state, updates_count, tasks, runs>>

Next ==
    \/ DiscoverFail
    \/ DiscoverOk
    \/ LoadState
    \/ \E i \in DOMAIN tasks : TaskStart(i)
    \/ \E i \in DOMAIN tasks : TaskDownload(i)
    \/ \E i \in DOMAIN tasks : TaskTransform(i)
    \/ \E i \in DOMAIN tasks : Collect(i)
    \/ Commit
    \/ SaveBegin
    \/ SaveWrite
    \/ SaveWriteError
    \/ SaveReplace
    \/ Crash
    \/ \E i \in DOMAIN catalog : CatalogChange(i)

Spec == Init /\ [][Next]_vars

\* The steps of a run past discovery.  The pool runs every submitted task,
\* download_data and transform_data return (the requests carry a timeout),
\* as_completed yields every resolved future and the main thread goes on:
\* while a step of the run is possible, one is taken.
RunStep ==
    \/ LoadState
    \/ \E i \in DOMAIN tasks : TaskStart(i)
    \/ \E i \in DOMAIN tasks : TaskDownload(i)
    \/ \E i \in DOMAIN tasks : TaskTransform(i)
    \/ \E i \in DOMAIN tasks : Collect(i)
    \/ Commit
    \/ SaveBegin
    \/ SaveWrite
    \/ SaveReplace

\* Where a step of the run is possible: ENABLED <<RunStep>>_vars, written
\* out.  In the dispatch stage a resolved task can be collected, a running
\* one can go on, a pending one can start while a thread is free, and with
\* every task collected the commit follows.
RunEnabled == pc \in {"load", "dispatch", "save_begin", "save_write", "save_replace"}

\* Weak fairness of RunStep, with its enabling condition written out.
FairRun == []<>(~RunEnabled) \/ []<><<RunStep>>_vars

SpecFair == Spec /\ FairRun

(***************************************************************************)
(* The filter phase on its own: catalogs of records with every combination *)
(* of theme and keyword tags, under every shape of the configured filter.  *)
(***************************************************************************)
TagDataset(theme, keyword) == [DsOneCsv EXCEPT !.theme = theme, !.keyword = keyword]

TagDatasets ==
    {TagDataset(theme, keyword) :
        theme \in {<<>>, <<"hospitals">>, <<" Hospitals ">>, <<"Quality">>,
                   <<"Quality", "hospitals">>},
        keyword \in {<<>>, <<" Hospitals ">>, <<"quality">>}}

FilterCatalogs ==
    {<<a>> : a \in TagDatasets} \cup {<<a, b>> : a \in TagDatasets, b \in TagDatasets}

\* theme_filter as a list (empty, one term, two terms), or as a bare string.
Configs ==
    {[theme_filter |-> [type |-> "list", items |-> items]] :
        items \in {<<>>, <<" Hospitals ">>, <<"Quality">>, <<"other">>,
                   <<"quality", " Hospitals ">>}}
    \cup {[theme_filter |-> [type |-> "str", items |-> <<"hospitals">>]]}

InitFilter ==
    /\ config \in Configs
    /\ catalog \in FilterCatalogs
    /\ stateFile = Absent
    /\ outFile = AllOut(catalog, "absent")
    /\ tmpFile = NoTmp
    /\ landFile = [s \in Stems(catalog) |-> "absent"]
    /\ clock = 2
    /\ pc = "idle"
    /\ hospital_datasets = <<>>
    /\ state = JList
    /\ updates_count = 0
    /\ tasks = <<>>
    /\ runs = 0
    /\ hist = NewHist(stateFile, FALSE)

NextFilter == DiscoverOk

SpecFilter == InitFilter /\ [][NextFilter]_vars

(***************************************************************************)
(* The derivation of keys and file stems at work: one load-and-dispatch    *)
(* pass over catalogs of two matching records whose identifiers and titles *)
(* are equal, nested in one another, or longer than the title limit.       *)
(***************************************************************************)
OneCsv == <<Dist("text/csv", "http://x/a.csv", "")>>

TwoCsv == <<Dist("text/csv", "http://x/a.csv", ""), Dist("", "http://x/d", "CSV")>>

LongTitle == [i \in 1..(TitleLimit + 1) |-> "a"]

NameCatalogs ==
    { <<Dataset(<<"d">>, <<"a", " ", "b">>, OneCsv, <<"hospitals">>),
        Dataset(<<"b", "_", "d">>, <<"a">>, OneCsv, <<"hospitals">>)>>,
      <<DsOneCsv, DsSameId>>,
      <<Dataset(<<"d">>, <<"a">>, TwoCsv, <<"hospitals">>),
        Dataset(<<"d", "1">>, <<"a">>, OneCsv, <<"hospitals">>)>>,
      <<Dataset(<<"d">>, <<"a">>, TwoCsv, <<"hospitals">>),
        Dataset(<<"d", "::", "distribution_", "1">>, <<"a">>, OneCsv, <<"hospitals">>)>>,
      <<Dataset(<<"d">>, LongTitle, OneCsv, <<"hospitals">>),
        Dataset(<<"b">>, SubSeq(LongTitle, 1, TitleLimit), OneCsv, <<"hospitals">>)>> }

InitNames ==
    /\ config = [theme_filter |-> THEME_FILTER]
    /\ catalog \in NameCatalogs
    /\ stateFile \in {Absent, LegacyFile(catalog)}
    /\ outFile = AllOut(catalog, "absent")
    /\ tmpFile = NoTmp
    /\ landFile = [s \in Stems(catalog) |-> "absent"]
    /\ clock = 2
    /\ pc = "idle"
    /\ hospital_datasets = <<>>
    /\ state = JList
    /\ updates_count = 0
    /\ tasks = <<>>
    /\ runs = 0
    /\ hist = NewHist(stateFile, FALSE)

NextNames ==
    \/ DiscoverOk
    \/ LoadState
    \/ \E i \in DOMAIN tasks : TaskStart(i)
    \/ \E i \in DOMAIN tasks : TaskDownload(i)
    \/ \E i \in DOMAIN tasks : TaskTransform(i)
    \/ \E i \in DOMAIN tasks : Collect(i)
    \/ Commit

SpecNames == InitNames /\ [][NextNames]_vars

(***************************************************************************)
(* The claims.                                                             *)
(***************************************************************************)
Resolved(t) == t.st \in {"returned", "raised", "collected"}

\* The "datasets" mapping a state file holds for load_state.
FileDatasets(file) ==
    IF file.kind = "json" /\ file.data.type = "dict" THEN file.data.map ELSE <<>>

\* C1: when the run before processed and committed every CSV distribution of
\* the filtered datasets, the catalog has not changed since and every output
\* file is on disk, this run downloads nothing, every process_dataset call
\* returns None, the update count stays zero and the state file is not
\* rewritten.
C1_SecondRunIsIdle ==
    (/\ hist.prevFull
     /\ \A s \in DOMAIN outFile : Exists(outFile[s]))
    => /\ hist.downloads = 0
       /\ hist.saves = 0
       /\ updates_count = 0
       /\ stateFile = hist.fileAtStart
       /\ \A i \in DOMAIN tasks :
              Resolved(tasks[i]) => ~tasks[i].raised /\ tasks[i].processed = <<>>

\* Every entry of "old" that carries first_seen is in "new" with that value.
FirstSeenKept(old, new) ==
    \A k \in DOMAIN old :
        (old[k].type = "dict" /\ "first_seen" \in old[k].has)
        => /\ k \in DOMAIN new
           /\ new[k].type = "dict"
           /\ "first_seen" \in new[k].has
           /\ new[k].first_seen = old[k].first_seen

\* The last record of a result for key k.
RECURSIVE LastFor(_, _)
LastFor(result, k) ==
    IF result[Len(result)].distribution_id = k THEN result[Len(result)]
    ELSE LastFor(SubSeq(result, 1, Len(result) - 1), k)

\* C2: once a key's entry carries first_seen = T0, every merge of a record
\* for that key keeps first_seen = T0 in the merged state and in the state
\* file a save writes, and last_processed becomes the record's timestamp.
C2_FirstSeenPreserved ==
    [][/\ (pc = "dispatch" /\ state.type = "dict")
            => FirstSeenKept(state.map, state'.map)
       /\ (stateFile' # stateFile)
            => /\ FirstSeenKept(FileDatasets(stateFile), FileDatasets(stateFile'))
               /\ FirstSeenKept(state.map, FileDatasets(stateFile'))
       /\ \A i \in DOMAIN tasks :
            (tasks[i].st = "returned" /\ tasks'[i].st = "collected")
            => \A n \in DOMAIN tasks[i].processed :
                 LET k == tasks[i].processed[n].distribution_id
                 IN  /\ k \in DOMAIN state'.map
                     /\ state'.map[k].last_processed =
                            LastFor(tasks[i].processed, k).last_processed]_vars

\* C2, its case: a key stored with first_seen = 1 by an earlier run has been
\* merged twice in this run (two records of the same key) and saved, with
\* first_seen still 1 and a later last_processed.
C2_Witness ==
    /\ pc = "done"
    /\ hist.saves = 1
    /\ updates_count = 2
    /\ hist.fileAtStart.kind = "json"
    /\ \E k \in DOMAIN FileDatasets(stateFile) :
           /\ k \in DOMAIN FileDatasets(hist.fileAtStart)
           /\ FileDatasets(hist.fileAtStart)[k].type = "dict"
           /\ FileDatasets(hist.fileAtStart)[k].first_seen = 1
           /\ "first_seen" \in FileDatasets(hist.fileAtStart)[k].has
           /\ FileDatasets(stateFile)[k].first_seen = 1
           /\ FileDatasets(stateFile)[k].last_processed > 2
           /\ Cardinality(DOMAIN FileDatasets(stateFile)) = 1

\* C3: the state file only ever holds the content the run found or the
\* complete new state; it changes only by the rename of save_state, of a
\* completely written temporary file of the state file's directory.
C3_AtomicSave ==
    [][/\ stateFile' \in {hist'.fileAtStart, JsonFile(state')}
       /\ (stateFile' # stateFile)
            => /\ pc = "save_replace"
               /\ tmpFile.exists
               /\ tmpFile.dir = StateFileDir
               /\ tmpFile.content = JsonFile(state)
               /\ stateFile' = tmpFile.content
               /\ state' = state]_vars

\* C3, its case: save_state was interrupted after it created the temporary
\* file, which is left behind, and the state file is the one the run found.
C3_Witness ==
    /\ pc = "crashed"
    /\ hist.saves = 1
    /\ tmpFile.exists
    /\ stateFile.kind = "json"
    /\ stateFile = hist.fileAtStart
    /\ stateFile # JsonFile(state)

\* C4: the orchestrator writes state["datasets"] only when every submitted
\* task has resolved.
C4_NoMergeBeforeAllResolved ==
    [][(pc = "dispatch" /\ state'.map # state.map)
            => \A i \in DOMAIN tasks : Resolved(tasks[i])]_vars

\* C5: a run calls save_state at most once, and exactly when its update
\* count is positive; with zero updates the state file, last_run included,
\* stays the one the run found.
C5_CommitRule ==
    /\ hist.saves <= 1
    /\ hist.saves = 1 => updates_count > 0
    /\ pc \in {"save_begin", "save_write", "save_replace"} => updates_count > 0
    /\ pc = "done" => hist.saves = (IF updates_count > 0 THEN 1 ELSE 0)
    /\ updates_count = 0 => stateFile = hist.fileAtStart

\* C5, its case: a run over an existing state file has loaded it, resolved
\* at least one task and ended with zero updates and no save.
C5_Witness ==
    /\ pc = "done"
    /\ hist.loads = 1
    /\ tasks # <<>>
    /\ updates_count = 0
    /\ hist.saves = 0
    /\ stateFile.kind = "json"
    /\ stateFile.data.last_run = 1

\* C6: a run whose catalog request failed has ended, with no task submitted,
\* no download, no transform, no state loaded or changed and no state file
\* written.
C6_DiscoveryFailureIsFatal ==
    hist.discoveryFailed
    => /\ pc = "aborted"
       /\ tasks = <<>>
       /\ hist.downloads = 0
       /\ hist.transforms = 0
       /\ hist.loads = 0
       /\ hist.saves = 0
       /\ state = JList
       /\ stateFile = hist.fileAtStart

\* C6, its case: the catalog request of a second run failed, over the state
\* file the first run saved.
C6_Witness ==
    /\ hist.discoveryFailed
    /\ runs = 2
    /\ stateFile.kind = "json"
    /\ stateFile.data.last_run > 1

RECURSIVE SumOver(_, _)
SumOver(f, n) == IF n = 0 THEN 0 ELSE f[n] + SumOver(f, n - 1)

\* Every record the tasks returned is merged: its key is in the state, with
\* the timestamp of a record some task returned for that key.
AllMerged ==
    /\ updates_count = SumOver([i \in DOMAIN tasks |-> Len(tasks[i].processed)],
                               Len(tasks))
    /\ \A i \in DOMAIN tasks : \A n \in DOMAIN tasks[i].processed :
           LET k == tasks[i].processed[n].distribution_id
           IN  /\ k \in DOMAIN state.map
               /\ "first_seen" \in state.map[k].has
               /\ \E j \in DOMAIN tasks : \E m \in DOMAIN tasks[j].processed :
                      state.map[k] = [tasks[j].processed[m] EXCEPT
                                          !.has = @ \cup {"first_seen"},
                                          !.first_seen = state.map[k].first_seen]

\* C7: collecting a task that raised changes neither the state nor the
\* update count nor another task, and leaves the job in the dispatch stage;
\* the job leaves that stage only for the commit, with every task collected
\* and every record of the other tasks merged.
C7_TaskIsolation ==
    [][/\ \A i \in DOMAIN tasks :
            (tasks[i].st = "raised" /\ tasks'[i].st # "raised")
            => /\ tasks'[i].st = "collected"
               /\ pc' = "dispatch"
               /\ state' = state
               /\ updates_count' = updates_count
               /\ \A j \in DOMAIN tasks : j # i => tasks'[j] = tasks[j]
       /\ (pc = "dispatch" /\ pc' # "dispatch")
            => /\ pc' \in {"save_begin", "done"}
               /\ \A i \in DOMAIN tasks : tasks[i].st = "collected"
               /\ AllMerged]_vars

\* C7, its case: a run in which one task raised and another returned a
\* record has saved that record.
C7_Witness ==
    /\ pc = "done"
    /\ hist.saves = 1
    /\ \E i \in DOMAIN tasks : tasks[i].raised /\ tasks[i].processed = <<>>
    /\ \E j \in DOMAIN tasks :
           /\ tasks[j].processed # <<>>
           /\ tasks[j].processed[1].distribution_id \in DOMAIN FileDatasets(stateFile)

IsOk(e) == e[2] = "ok"

Attempted(e) == e[2] \in {"dl_fail", "tr_fail", "ok"}

Transformed(e) == e[2] \in {"tr_fail", "ok"}

C9_CorruptFileLoadsEmpty ==
    (hist.loads = 1 /\ hist.fileAtStart.kind \in {"malformed", "undecodable"})
    => /\ ~hist.loadRaised
       /\ (pc = "dispatch" /\ \A i \in DOMAIN tasks : tasks[i].st # "collected")
            => state = EmptyState

\* C10: what load_state returns for a parsed state file is a dict holding
\* "datasets"; for a parsed value without that key it is the entire parsed
\* value under "datasets", with last_run None.
C10_LoadedStateShape ==
    (hist.loads = 1 /\ ~hist.loadRaised /\ hist.fileAtStart.kind = "json")
    => /\ state.type = "dict"
       /\ "datasets" \in state.has
       /\ (/\ "datasets" \notin hist.fileAtStart.data.has
           /\ pc = "dispatch"
           /\ \A i \in DOMAIN tasks : tasks[i].st # "collected")
            => state = JWrapped({"datasets", "last_run"},
                                hist.fileAtStart.data.map, None)

\* C11: a transform_data call on a staged file without a header row returns
\* failure and leaves the output path as it was: an absent file stays absent,
\* an existing one keeps its content.
C11_EmptyInputWritesNothing ==
    [][\A i \in DOMAIN tasks :
          (/\ tasks[i].st = "running"
           /\ tasks[i].phase = "transform"
           /\ tasks'[i] # tasks[i]
           /\ landFile[FileStem(hospital_datasets[i], tasks[i].idx)] = "empty")
          => /\ outFile' = outFile
             /\ tasks'[i].log = Append(tasks[i].log, <<tasks[i].idx, "tr_fail">>)
             /\ tasks'[i].processed = tasks[i].processed]_vars

\* A dataset record process_dataset has nothing to do for.
Ineligible(dataset) ==
    \/ dataset.identifier = <<>>
    \/ /\ dataset.distribution.type = "list"
       /\ _get_csv_distributions(dataset) = <<>>

\* C12: a process_dataset call for a record without identifier, or without a
\* CSV-eligible distribution, returns None whatever the state is: it never
\* raises, never enters the processing loop and returns no record.
C12_IneligibleReturnsNone ==
    \A i \in DOMAIN tasks :
        Ineligible(hospital_datasets[i])
        => /\ tasks[i].st \in {"pending", "returned", "collected"}
           /\ ~tasks[i].raised
           /\ tasks[i].log = <<>>
           /\ tasks[i].processed = <<>>
           /\ tasks[i].phase = "download"

TagSet(item) == {StripLower(t) : t \in Range(item.theme) \cup Range(item.keyword)}

FilterSet(config_filter) == {StripLower(t) : t \in Range(config_filter.items)}

\* C14: the datasets passed to the dispatch stage are, in catalog order,
\* exactly the records whose trimmed, lower-cased theme and keyword tags share
\* an element with the trimmed, lower-cased filter terms; a record without
\* tags is never among them, and an empty filter list selects none.
C14_FilterSelects ==
    pc = "load"
    => LET Meets(item) == TagSet(item) \cap FilterSet(config.theme_filter) # {}
       IN  /\ hospital_datasets = SelectSeq(catalog, Meets)
           /\ \A i \in DOMAIN hospital_datasets :
                  hospital_datasets[i].theme \o hospital_datasets[i].keyword # <<>>
           /\ config.theme_filter.items = <<>> => hospital_datasets = <<>>

\* C14, its case: of two records the second alone is selected, by a keyword
\* that meets the filter term only once both are trimmed and lower-cased.
C14_Witness ==
    /\ pc = "load"
    /\ Len(catalog) = 2
    /\ hospital_datasets = <<catalog[2]>>
    /\ catalog[2].theme = <<"Quality">>
    /\ catalog[2].keyword = <<" Hospitals ">>
    /\ catalog[1].theme \o catalog[1].keyword = <<"Quality">>
    /\ config.theme_filter.items = <<" Hospitals ">>

\* C15: a step of a worker (a pending or running task moves) leaves the
\* state as it is; during dispatch the state changes only in a step of the
\* as_completed loop, which collects one returned task, touches no other
\* task and changes nothing of the state but the datasets mapping.
C15_WorkersNeverWriteState ==
    [][/\ (\E i \in DOMAIN tasks :
              /\ tasks[i].st \in {"pending", "running"}
              /\ tasks'[i] # tasks[i])
          => state' = state
       /\ (pc = "dispatch" /\ state' # state)
          => /\ \E i \in DOMAIN tasks :
                    /\ tasks[i].st = "returned"
                    /\ tasks'[i].st = "collected"
                    /\ tasks[i].processed # <<>>
                    /\ \A j \in DOMAIN tasks : j # i => tasks'[j] = tasks[j]
             /\ state' = [state EXCEPT !.map = state'.map]]_vars

\* C15, its case: a worker has built a record while the state the job
\* loaded is still untouched, another task being at work.
C15_Witness ==
    /\ pc = "dispatch"
    /\ \E i \in DOMAIN tasks : tasks[i].processed # <<>> /\ tasks[i].st = "returned"
    /\ \E j \in DOMAIN tasks : tasks[j].st = "running"
    /\ state = load_state(hist.fileAtStart).value
    /\ state.map # <<>>

\* Current as the specification has it: the stored modified token of the key
\* (of a record entry or of a legacy string entry) equals the dataset's
\* token, and the output file exists.
TokenCurrent(dataset, index, st, out) ==
    LET key == StateKey(dataset.identifier, index)
        stored == IF st.type = "dict" THEN StateDatasets(st) ELSE <<>>
    IN  /\ key \in DOMAIN stored
        /\ (IF stored[key].type = "str" THEN stored[key].str
            ELSE stored[key].last_modified) = dataset.modified
        /\ out[FileStem(dataset, index)] # "absent"

\* Some CSV distribution of the dataset has a URL and is not current.
HasWork(dataset, st, out) ==
    /\ dataset.identifier # <<>>
    /\ dataset.distribution.type = "list"
    /\ \E n \in DOMAIN _get_csv_distributions(dataset) :
           /\ _get_csv_distributions(dataset)[n].downloadURL # ""
           /\ ~TokenCurrent(dataset, n, st, out)

\* C16: a process_dataset call for a dataset with a CSV distribution that has
\* a URL and is not current enters its processing loop; the loop requests
\* every distribution it reaches that has a URL and is not current, and ends
\* only after the last CSV distribution.
C16_NotCurrentIsDownloaded ==
    [][\A i \in DOMAIN tasks :
          LET dataset == hospital_datasets[i]
              t == tasks[i]
          IN  /\ (/\ t.st = "pending"
                  /\ tasks'[i].st # "pending"
                  /\ HasWork(dataset, state, outFile))
                 => tasks'[i].st = "running"
              /\ (/\ t.st = "running"
                  /\ t.phase = "download"
                  /\ tasks'[i] # t
                  /\ _get_csv_distributions(dataset)[t.idx].downloadURL # ""
                  /\ ~TokenCurrent(dataset, t.idx, state, outFile))
                 => /\ hist'.downloads = hist.downloads + 1
                    /\ \/ tasks'[i].phase = "transform"
                       \/ tasks'[i].log = Append(t.log, <<t.idx, "dl_fail">>)
              /\ (t.st = "running" /\ tasks'[i].st # "running")
                 => Len(tasks'[i].log) = Len(_get_csv_distributions(dataset))]_vars

\* The distribution key as the specification writes it.
KeyOf(dataset, n) == dataset.identifier \o <<"::", "distribution_", IntStr(n)>>

\* C17 as stated: no two distinct (record, CSV distribution) pairs of the
\* filtered catalog have the same distribution key.
C17_KeysUnique ==
    \A p, q \in CsvPairs(hospital_datasets) :
        p # q => StateKey(hospital_datasets[p[1]].identifier, p[2])
                 # StateKey(hospital_datasets[q[1]].identifier, q[2])

\* C17, amended: the CSV distributions of a record get the ordinals 1..k in
\* list order and the key "{identifier}::distribution_{ordinal}"; two
\* distinct pairs have different keys when they are of the same record or of
\* records with different identifiers, and every record a task returns is for
\* a key of its own dataset.
C17_KeysUniquePerIdentifier ==
    /\ \A p, q \in CsvPairs(hospital_datasets) :
           (/\ p # q
            /\ \/ p[1] = q[1]
               \/ hospital_datasets[p[1]].identifier # hospital_datasets[q[1]].identifier)
           => StateKey(hospital_datasets[p[1]].identifier, p[2])
              # StateKey(hospital_datasets[q[1]].identifier, q[2])
    /\ \A p \in CsvPairs(hospital_datasets) :
           StateKey(hospital_datasets[p[1]].identifier, p[2])
               = KeyOf(hospital_datasets[p[1]], p[2])
    /\ \A i \in DOMAIN tasks :
           LET ok == SelectSeq(tasks[i].log, IsOk)
           IN  /\ Len(tasks[i].processed) = Len(ok)
               /\ \A n \in DOMAIN ok :
                      /\ tasks[i].processed[n].distribution_id
                             = KeyOf(hospital_datasets[i], ok[n][1])
                      /\ tasks[i].processed[n].identifier = hospital_datasets[i].identifier
    /\ (pc # "dispatch" /\ state.type = "dict")
       => \A i \in DOMAIN tasks : \A n \in DOMAIN tasks[i].processed :
              LET r == tasks[i].processed[n]
              IN  (\A j \in DOMAIN tasks :
                       j # i => hospital_datasets[j].identifier # r.identifier)
                  => /\ r.distribution_id \in DOMAIN state.map
                     /\ state.map[r.distribution_id].last_processed = r.last_processed

\* C17, its case: two records with different identifiers, one nested in the
\* other's key, have returned three records, merged under three keys.
C17_Witness ==
    /\ pc = "save_begin"
    /\ Len(hospital_datasets) = 2
    /\ hospital_datasets[2].identifier = <<"d", "::", "distribution_", "1">>
    /\ updates_count = 3
    /\ Cardinality(DOMAIN state.map) = 3
    /\ \A i \in DOMAIN tasks : \A n \in DOMAIN tasks[i].processed :
           state.map[tasks[i].processed[n].distribution_id].last_processed
               = tasks[i].processed[n].last_processed

\* Every record the tasks returned has an entry in the datasets mapping d,
\* with first_seen and last_processed set.
AllRecorded(d) ==
    \A i \in DOMAIN tasks : \A n \in DOMAIN tasks[i].processed :
        LET k == tasks[i].processed[n].distribution_id
        IN  /\ k \in DOMAIN d
            /\ d[k].type = "dict"
            /\ {"first_seen", "last_processed"} \subseteq d[k].has
            /\ d[k].first_seen # None
            /\ d[k].last_processed # None

\* C18: the commit stage is entered only with every task resolved and
\* collected; save_state runs only on a state into which every returned
\* record has been merged, and the file it writes holds an entry with
\* first_seen and last_processed for the key of each; a run that has passed
\* discovery comes to its end.
C18_NoResultLost ==
    /\ [](/\ pc \in {"save_begin", "save_write", "save_replace", "done"}
             => \A i \in DOMAIN tasks : tasks[i].st = "collected"
          /\ (pc \in {"save_begin", "save_write", "save_replace"} \/ hist.saves = 1)
             => AllMerged /\ AllRecorded(state.map)
          /\ (pc = "done" /\ hist.saves = 1)
             => /\ stateFile = JsonFile(state)
                /\ AllRecorded(FileDatasets(stateFile)))
    /\ (pc = "load" ~> RunEnded)

\* C18, its case: a run has ended with the two records of one task saved,
\* after another run.
C18_Witness ==
    /\ pc = "done"
    /\ runs = 2
    /\ hist.saves = 1
    /\ \E i \in DOMAIN tasks : Len(tasks[i].processed) = 2
    /\ Cardinality(DOMAIN FileDatasets(stateFile)) = 2
    /\ AllRecorded(FileDatasets(stateFile))

\* C19: two tasks at work at the same time on records with different
\* identifiers never have the same landing and output file in hand: the
\* file stems of their current distributions differ.
C19_NoSharedFiles ==
    \A i, j \in DOMAIN tasks :
        (/\ i # j
         /\ tasks[i].st = "running"
         /\ tasks[j].st = "running"
         /\ hospital_datasets[i].identifier # hospital_datasets[j].identifier)
        => /\ StateKey(hospital_datasets[i].identifier, tasks[i].idx)
              # StateKey(hospital_datasets[j].identifier, tasks[j].idx)
           /\ FileStem(hospital_datasets[i], tasks[i].idx)
              # FileStem(hospital_datasets[j], tasks[j].idx)

\* C20: an output file comes to exist only by a transform_data call that
\* returned success, and the up-to-date check never passes over a
\* distribution whose most recent download or transform call failed: neither
\* in the loop (line 152) nor by the return of line 136.
C20_FailedNeverCurrent ==
    [][/\ \A s \in DOMAIN outFile :
              (outFile[s] = "absent" /\ outFile'[s] # "absent")
              => s \notin hist'.lastFailed
       /\ \A i \in DOMAIN tasks :
              LET dataset == hospital_datasets[i]
                  t == tasks[i]
              IN  /\ (/\ t.st = "running"
                      /\ tasks'[i].log = Append(t.log, <<t.idx, "current">>))
                     => FileStem(dataset, t.idx) \notin hist.lastFailed
                  /\ (/\ t.st = "pending"
                      /\ tasks'[i].st = "returned"
                      /\ ~Ineligible(dataset))
                     => \A n \in DOMAIN _get_csv_distributions(dataset) :
                            FileStem(dataset, n) \notin hist.lastFailed]_vars

====
